---- MODULE Spec2Model ----
(***************************************************************************)
(* Local authentication core of the Expense Manager app: the PIN service   *)
(* (salted digest kept in the secure store), the in-process rate limiter   *)
(* and the auth store that orchestrates them.                              *)
(*                                                                         *)
(* Asynchronous functions are modelled as tasks.  A task runs one exported *)
(* async function; each action of a task is the code between two awaits    *)
(* that reach the native side (secure store, crypto), so that the calls in *)
(* flight interleave exactly where the JavaScript event loop lets them.    *)
(***************************************************************************)
EXTENDS Integers, Sequences, FiniteSets, TLC

VARIABLES
    now,             \* Date.now(), in milliseconds
    rateLimitState,  \* pinService.ts module variable {failedAttempts, lockUntil}
    secureStore,     \* expo-secure-store: key -> value, NoItem when absent
    auth,            \* the zustand auth store (authStore.ts)
    tasks,           \* the async calls in flight
    lastOp,          \* history: the last rate-limiter call, its pre-state and result,
                     \*          and whether the call before it found the lock expired
    calls,           \* history: recordFailedAttempt() calls since the limiter was last reset
    wrongChecked,    \* history: wrong PINs answered by verifyPin for authenticate since then
    established,     \* history: the PIN of the last setupPin that returned true, NoItem
                     \*          once a later call began to write or delete the
                     \*          Credential, Cleared once clearPin has deleted it
    screen           \* the React state of PinSetupScreen and of PinEntryScreen

vars == <<now, rateLimitState, secureStore, auth, tasks, lastOp, calls, wrongChecked,
          established, screen>>

----------------------------------------------------------------------------
(* Program constants (src/src/utils/constants.ts, SECURITY)                *)

MAX_FAILED_ATTEMPTS == 5
LOCKOUT_DURATION_MS == 30000
MIN_PIN_LENGTH == 4
MAX_PIN_LENGTH == 6

(* lockUntil: number | null.  null is modelled as -1.                      *)
Null == -1

----------------------------------------------------------------------------
(* Bounds of the model                                                     *)

\* the clock advances in steps of TickMs up to MaxNow
TickMs == 15000
MaxNow == 45000
\* recordFailedAttempt() is not called any more once the counter is this high
MaxFailed == 6
\* the clock of the auto-lock policy starts at IdleTickMs and advances in
\* steps of IdleTickMs up to MaxIdleNow
IdleTickMs == 30000
MaxIdleNow == 180000

Max(a, b) == IF a >= b THEN a ELSE b

----------------------------------------------------------------------------
(* The rate limiter (pinService.ts 211-253) as functions of its state rl   *)
(* and of the clock value t read by Date.now().                            *)

\* JavaScript's !x for a number | null
Falsy(x) == x = Null \/ x = 0

\* isLocked() clearing lockUntil but not the counter when the lock has expired
isLocked_KeepsCount(rl, t) ==
    IF Falsy(rl.lockUntil)
    THEN [state |-> rl, ret |-> FALSE]
    ELSE IF t >= rl.lockUntil
         THEN [state |-> [rl EXCEPT !.lockUntil = Null], ret |-> FALSE]
         ELSE [state |-> rl, ret |-> TRUE]

\* isLocked() with the comparison of the clock turned round
isLocked_Inverted(rl, t) ==
    IF Falsy(rl.lockUntil)
    THEN [state |-> rl, ret |-> FALSE]
    ELSE IF t <= rl.lockUntil
         THEN [state |-> [failedAttempts |-> 0, lockUntil |-> Null], ret |-> FALSE]
         ELSE [state |-> rl, ret |-> TRUE]

\* isLocked(): the state it leaves and the value it returns
isLocked(rl, t) ==
    IF Falsy(rl.lockUntil)
    THEN [state |-> rl, ret |-> FALSE]
    ELSE IF t >= rl.lockUntil
         THEN [state |-> [failedAttempts |-> 0, lockUntil |-> Null], ret |-> FALSE]
         ELSE [state |-> rl, ret |-> TRUE]

getRemainingLockTime(rl, t) ==
    IF Falsy(rl.lockUntil) THEN 0 ELSE Max(0, rl.lockUntil - t)

\* recordFailedAttempt() locking one failure late (> for >=)
recordFailedAttempt_Late(rl, t) ==
    LET n == rl.failedAttempts + 1
    IN  IF n > MAX_FAILED_ATTEMPTS
        THEN [failedAttempts |-> n, lockUntil |-> t + LOCKOUT_DURATION_MS]
        ELSE [failedAttempts |-> n, lockUntil |-> rl.lockUntil]

recordFailedAttempt(rl, t) ==
    LET n == rl.failedAttempts + 1
    IN  IF n >= MAX_FAILED_ATTEMPTS
        THEN [failedAttempts |-> n, lockUntil |-> t + LOCKOUT_DURATION_MS]
        ELSE [failedAttempts |-> n, lockUntil |-> rl.lockUntil]

\* resetRateLimit() forgetting one of its two assignments
resetRateLimit_KeepsLock(rl) == [failedAttempts |-> 0, lockUntil |-> rl.lockUntil]

resetRateLimit_KeepsCount(rl) == [failedAttempts |-> rl.failedAttempts, lockUntil |-> Null]

resetRateLimit(rl) == [failedAttempts |-> 0, lockUntil |-> Null]

----------------------------------------------------------------------------
(* Secure store and hashing (pinService.ts 1-25, constants.ts 41-49)       *)

\* getItemAsync() of a key that holds nothing returns null
NoItem == <<>>

\* the PINs the user types: digit strings, as sequences of digits
Pins == { <<1, 3, 5, 7>>, <<2, 4, 6, 8>> }

\* PINs of every permitted length, as PinSetupScreen lets them be set up
EntryPins == { <<1, 3, 5, 7>>, <<1, 3, 5, 7, 9>>, <<1, 3, 5, 7, 9, 2>> }

\* what Crypto.getRandomBytesAsync may deliver (here 1 byte instead of 16)
RandomBytes == { <<7>>, <<200>> }

RECURSIVE generateSalt(_)
\* every byte as two hex digits (toString(16).padStart(2, '0')), joined
generateSalt(randomBytes) ==
    IF randomBytes = <<>> THEN <<>>
    ELSE <<Head(randomBytes) \div 16, Head(randomBytes) % 16>>
            \o generateSalt(Tail(randomBytes))

\* hashPin digesting the salt alone
hashPin_SaltOnly(pin, salt) == <<"sha256", salt>>

\* SHA-256 of the text pin + salt; the digest is a one-way, collision-free
\* function of its input, kept symbolic
hashPin(pin, salt) == <<"sha256", pin \o salt>>

EmptyStore ==
    [pin_hash |-> NoItem, pin_salt |-> NoItem, first_launch |-> NoItem,
     security_questions |-> NoItem, biometric_enabled |-> NoItem, last_active |-> NoItem]

\* the hash h is the digest of some PIN with the salt s
Pair(h, s) == \E p \in Pins \cup EntryPins : h = hashPin(p, s)

----------------------------------------------------------------------------
(* The auth store (authStore.ts 39-46) and the tasks                       *)

AuthInit ==
    [isAuthenticated |-> FALSE, isPinSet |-> FALSE, isBiometricEnabled |-> FALSE,
     isLoading |-> TRUE, failedAttempts |-> 0, lockRemainingMs |-> 0, error |-> "null"]

Tasks == {1, 2}

\* pin, newPin: the arguments; h, s: the locals storedHash/hash and salt;
\* locked: what isLocked() returned to authenticate; valid: what verifyPin or
\* authenticateWithBiometric returned; threw: a secure-store access of the call threw (console.error);
\* ret, error: the value returned; store0: history, the store when changePin or resetPin began;
\* mixed: history, verifyPin compared a hash and a salt that do not belong together;
\* arg: the questions or answers argument; propagated: the call threw to its caller;
\* compatible, supported, enabled: what hasHardwareAsync, isBiometricSupported
\* and isBiometricEnabled returned to authenticateWithBiometric; prompted:
\* history, the call invoked LocalAuthentication.authenticateAsync;
\* minutes: the autoLockMinutes argument
IdleTask ==
    [op |-> "idle", pc |-> "idle", pin |-> <<>>, newPin |-> <<>>, arg |-> <<>>,
     h |-> NoItem, s |-> NoItem, store0 |-> EmptyStore,
     locked |-> FALSE, valid |-> FALSE, threw |-> FALSE, mixed |-> FALSE,
     compatible |-> FALSE, supported |-> FALSE, enabled |-> FALSE, prompted |-> FALSE,
     minutes |-> 0, ret |-> FALSE, error |-> "null", propagated |-> FALSE]

Open0 == [failedAttempts |-> 0, lockUntil |-> Null]

\* The screens as mounted.  PinSetupScreen.tsx 31-33: step, pin, confirmPin;
\* SplashScreen.tsx PinEntryScreen: entry (its pin), locked, isSuccess;
\* timers: the setTimeout callbacks that will clear confirmPin or entry;
\* keyed: history, the digits pressed on PinEntryScreen since it was mounted;
\* checked: history, the validatePin call made by the last step, NoItem if
\*          the last step made none
ScreenInit ==
    [step |-> "create", pin |-> <<>>, confirmPin |-> <<>>,
     entry |-> <<>>, locked |-> FALSE, isSuccess |-> FALSE,
     timers |-> 0, keyed |-> <<>>, checked |-> NoItem]

\* lastOp before any call of the rate limiter
NoOp == [op |-> "none", pre |-> Open0, ret |-> FALSE, afterExpiry |-> FALSE]

Init ==
    /\ now = 0
    /\ rateLimitState = Open0
    /\ secureStore = EmptyStore
    /\ auth = AuthInit
    /\ tasks = [t \in Tasks |-> IdleTask]
    /\ lastOp = NoOp
    /\ calls = 0
    /\ wrongChecked = 0
    /\ established = NoItem
    /\ screen = ScreenInit

----------------------------------------------------------------------------
(* History of the rate limiter: every call of one of its functions goes    *)
(* through Limiter, which installs the state the call leaves.              *)

\* the call recorded in l was an isLocked() that found a lock and answered false
FoundExpired(l) == l.op = "isLocked" /\ l.pre.lockUntil # Null /\ ~l.ret

Limiter(op, post, ret) ==
    /\ rateLimitState' = post
    /\ lastOp' = [op |-> op, pre |-> rateLimitState, ret |-> ret,
                  afterExpiry |-> FoundExpired(lastOp)]
    /\ calls' = IF op = "recordFailedAttempt" THEN calls + 1
                ELSE IF post = Open0 THEN 0 ELSE calls

\* wrong = 1 when the step also has verifyPin answer false after comparing digests
Guesses(post, wrong) ==
    wrongChecked' = IF post = Open0 THEN 0 ELSE wrongChecked + wrong

LimiterUntouched == UNCHANGED <<rateLimitState, lastOp, calls, wrongChecked>>

----------------------------------------------------------------------------
(* The clock                                                               *)

Tick ==
    /\ now + TickMs <= MaxNow
    /\ now' = now + TickMs
    /\ UNCHANGED <<rateLimitState, secureStore, auth, tasks, lastOp, calls, wrongChecked,
                 established, screen>>

----------------------------------------------------------------------------
(* Direct calls of the rate limiter's exported functions                   *)

\* isLocked() called on its own: PinEntryScreen.checkLockStatus on mount and
\* handleDigitPress after a failed authenticate (SplashScreen.tsx 157-162, 205)
CallIsLocked ==
    LET r == isLocked(rateLimitState, now)
    IN  /\ Limiter("isLocked", r.state, r.ret)
        /\ Guesses(r.state, 0)
        /\ UNCHANGED <<now, screen, secureStore, auth, tasks, established>>

CallRecordFailedAttempt ==
    /\ rateLimitState.failedAttempts < MaxFailed
    /\ LET post == recordFailedAttempt(rateLimitState, now)
       IN  /\ Limiter("recordFailedAttempt", post, FALSE)
           /\ Guesses(post, 0)
    /\ UNCHANGED <<now, screen, secureStore, auth, tasks, established>>

CallResetRateLimit ==
    LET post == resetRateLimit(rateLimitState)
    IN  /\ Limiter("resetRateLimit", post, FALSE)
        /\ Guesses(post, 0)
        /\ UNCHANGED <<now, screen, secureStore, auth, tasks, established>>


----------------------------------------------------------------------------
(* The synchronous parts of the async functions                            *)

\* verifyPin (pinService.ts 64-79) run on a store that answers both reads
verifyPin(store, pin) ==
    LET storedHash == store.pin_hash
        salt       == store.pin_salt
    IN  IF storedHash = NoItem \/ salt = NoItem
        THEN FALSE
        ELSE hashPin(pin, salt) = storedHash

\* authenticate, the branch taken when isLocked() is true (authStore.ts 67-73)
authenticateLocked(a, rl, t) ==
    [a EXCEPT !.error = "Too many failed attempts. Please wait.",
              !.lockRemainingMs = getRemainingLockTime(rl, t)]

\* authenticate taking the success branch whatever verifyPin returned
authenticateVerified_Always(a, rl, t, isValid) ==
    [lop  |-> "resetRateLimit",
     rl   |-> resetRateLimit(rl),
     auth |-> [a EXCEPT !.isAuthenticated = TRUE, !.failedAttempts = 0,
                        !.error = "null", !.lockRemainingMs = 0],
     ret  |-> TRUE]

\* authenticate after "await verifyPin(pin)" (authStore.ts 77-95)
authenticateVerified(a, rl, t, isValid) ==
    IF isValid
    THEN [lop  |-> "resetRateLimit",
          rl   |-> resetRateLimit(rl),
          auth |-> [a EXCEPT !.isAuthenticated = TRUE, !.failedAttempts = 0,
                             !.error = "null", !.lockRemainingMs = 0],
          ret  |-> TRUE]
    ELSE LET rl2 == recordFailedAttempt(rl, t)
         IN  [lop  |-> "recordFailedAttempt",
              rl   |-> rl2,
              auth |-> [a EXCEPT !.failedAttempts = a.failedAttempts + 1,
                                 !.error = "Incorrect PIN",
                                 !.lockRemainingMs = getRemainingLockTime(rl2, t)],
              ret  |-> FALSE]

\* changePin going on to setupPin(newPin) without looking at isValid
changePinProceeds_Always(isValid) == TRUE

\* changePin after "await verifyPin(currentPin)" (pinService.ts 90-96):
\* TRUE when it goes on to setupPin(newPin)
changePinProceeds(isValid) == isValid

\* the PIN that the setupPin of a task hashes
SetupArg(k) == IF k.op = "changePin" THEN k.newPin ELSE k.pin

\* deleteItemAsync(key) that deletes nothing
deleteItem_Keeps(store, key) == store

\* SecureStore.deleteItemAsync(key) having settled
deleteItem(store, key) == [store EXCEPT ![key] = NoItem]

Done(k, ret, err) ==
    [k EXCEPT !.pc = "done", !.ret = ret, !.error = err, !.h = NoItem, !.s = NoItem]

----------------------------------------------------------------------------
(* Calls: the code from the call to the first await                        *)

\* authStore.authenticate(pin) (authStore.ts 64-75)
AuthenticateBegins(t, pin) ==
    /\ tasks[t].pc = "idle"
    /\ LET r == isLocked(rateLimitState, now)
           k == [IdleTask EXCEPT !.op = "authenticate", !.pin = pin]
       IN  /\ Limiter("isLocked", r.state, r.ret)
           /\ Guesses(r.state, 0)
           /\ IF r.ret
              THEN /\ auth' = authenticateLocked(auth, r.state, now)
                   /\ tasks' = [tasks EXCEPT
                                  ![t] = Done([k EXCEPT !.locked = TRUE], FALSE, "null")]
              ELSE /\ auth' = auth
                   /\ tasks' = [tasks EXCEPT ![t] = [k EXCEPT !.pc = "v_hash"]]
    /\ UNCHANGED <<now, secureStore, established>>

\* authenticate(pin) called with the screens left as they are
Authenticate(t, pin) ==
    /\ AuthenticateBegins(t, pin)
    /\ UNCHANGED screen

\* verifyPin(pin) called on its own (pinService.ts 64-66)
VerifyPin(t, pin) ==
    /\ tasks[t].pc = "idle"
    /\ tasks' = [tasks EXCEPT
                   ![t] = [IdleTask EXCEPT !.op = "verifyPin", !.pc = "v_hash", !.pin = pin]]
    /\ UNCHANGED <<now, screen, secureStore, auth, established>>
    /\ LimiterUntouched

\* setupPin(pin) (pinService.ts 43-45), called on its own (op = "setupPin") or
\* by PinSetupScreen.handlePinConfirmed (op = "handlePinConfirmed")
SetupPinBegins(t, pin, op) ==
    /\ tasks[t].pc = "idle"
    /\ tasks' = [tasks EXCEPT
                   ![t] = [IdleTask EXCEPT !.op = op, !.pc = "s_salt", !.pin = pin]]
    /\ UNCHANGED <<now, secureStore, auth, established>>
    /\ LimiterUntouched

\* setupPin(pin) called with the screens left as they are
SetupPin(t, pin, op) ==
    /\ SetupPinBegins(t, pin, op)
    /\ UNCHANGED screen

\* changePin(currentPin, newPin) (pinService.ts 84-90)
ChangePin(t, currentPin, newPin) ==
    /\ tasks[t].pc = "idle"
    /\ tasks' = [tasks EXCEPT
                   ![t] = [IdleTask EXCEPT !.op = "changePin", !.pc = "v_hash",
                                           !.pin = currentPin, !.newPin = newPin,
                                           !.store0 = secureStore]]
    /\ UNCHANGED <<now, screen, secureStore, auth, established>>
    /\ LimiterUntouched

\* resetPin(newPin) (pinService.ts 111-114)
ResetPin(t, newPin) ==
    /\ tasks[t].pc = "idle"
    /\ tasks' = [tasks EXCEPT
                   ![t] = [IdleTask EXCEPT !.op = "resetPin", !.pc = "r_hash", !.pin = newPin,
                                           !.store0 = secureStore]]
    /\ UNCHANGED <<now, screen, secureStore, auth, established>>
    /\ LimiterUntouched

----------------------------------------------------------------------------
(* Resumptions: what runs when an awaited native call settles              *)

\* verifyPin returns isValid to its caller, which resumes in the same turn.
\* wrong = 1: it compared the digests and they differ; threw: a read threw
VerifyReturns(t, isValid, wrong, threw) ==
    LET k == [tasks[t] EXCEPT
                 !.valid = isValid, !.threw = threw,
                 !.mixed = (tasks[t].pc = "v_digest" /\ ~Pair(tasks[t].h, tasks[t].s))]
    IN  CASE k.op = "verifyPin" ->
                /\ tasks' = [tasks EXCEPT ![t] = Done(k, isValid, "null")]
                /\ UNCHANGED auth
                /\ LimiterUntouched
          [] k.op = "authenticate" ->
                LET o == authenticateVerified(auth, rateLimitState, now, isValid)
                IN  /\ Limiter(o.lop, o.rl, FALSE)
                    /\ Guesses(o.rl, wrong)
                    /\ auth' = o.auth
                    /\ tasks' = [tasks EXCEPT ![t] = Done(k, o.ret, "null")]
          [] k.op = "changePin" ->
                /\ tasks' = [tasks EXCEPT ![t] =
                       IF changePinProceeds(isValid)
                       THEN [k EXCEPT !.pc = "s_salt", !.h = NoItem, !.s = NoItem]
                       ELSE Done(k, FALSE, "Current PIN is incorrect")]
                /\ UNCHANGED auth
                /\ LimiterUntouched

\* the catch of verifyPin returning true
verifyPinCaught_True == TRUE

\* what the catch of verifyPin returns (pinService.ts 75-78)
verifyPinCaught == FALSE

\* verifyPin: getItemAsync(PIN_HASH) settles (pinService.ts 66, 75-78)
VReadHash(t, ok) ==
    /\ tasks[t].pc = "v_hash"
    /\ IF ok
       THEN /\ tasks' = [tasks EXCEPT ![t].h = secureStore.pin_hash, ![t].pc = "v_salt"]
            /\ UNCHANGED auth
            /\ LimiterUntouched
       ELSE VerifyReturns(t, verifyPinCaught, 0, TRUE)
    /\ UNCHANGED <<now, screen, secureStore, established>>

\* verifyPin: getItemAsync(PIN_SALT) settles (pinService.ts 67-73, 75-78)
VReadSalt(t, ok) ==
    /\ tasks[t].pc = "v_salt"
    /\ IF ~ok
       THEN VerifyReturns(t, verifyPinCaught, 0, TRUE)
       ELSE IF tasks[t].h = NoItem \/ secureStore.pin_salt = NoItem
            THEN VerifyReturns(t, FALSE, 0, FALSE)
            ELSE /\ tasks' = [tasks EXCEPT ![t].s = secureStore.pin_salt,
                                           ![t].pc = "v_digest"]
                 /\ UNCHANGED auth
                 /\ LimiterUntouched
    /\ UNCHANGED <<now, screen, secureStore, established>>

\* verifyPin: digestStringAsync settles and the digests are compared (73-74)
VDigest(t) ==
    /\ tasks[t].pc = "v_digest"
    /\ LET isValid == hashPin(tasks[t].pin, tasks[t].s) = tasks[t].h
       IN  VerifyReturns(t, isValid, IF isValid THEN 0 ELSE 1, FALSE)
    /\ UNCHANGED <<now, screen, secureStore, established>>

\* setupPin returns success to its caller (pinService.ts 54-58, 96-101)
SetupReturns(t, success, threw) ==
    LET k == [tasks[t] EXCEPT !.threw = threw]
    IN  /\ tasks' = [tasks EXCEPT ![t] =
               Done(k, success,
                    IF k.op = "changePin" /\ ~success
                    THEN "Failed to set new PIN" ELSE "null")]
        /\ established' = IF success THEN SetupArg(k) ELSE established

\* setupPin: salt and digest are ready, setItemAsync(PIN_SALT) settles (45-48)
SWriteSalt(t, ok, randomBytes) ==
    /\ tasks[t].pc = "s_salt"
    /\ LET salt == generateSalt(randomBytes)
           hash == hashPin(SetupArg(tasks[t]), salt)
       IN  IF ok
           THEN /\ secureStore' = [secureStore EXCEPT !.pin_salt = salt]
                /\ tasks' = [tasks EXCEPT ![t].s = salt, ![t].h = hash,
                                          ![t].pc = "s_hash"]
                /\ established' = NoItem
           ELSE /\ SetupReturns(t, FALSE, TRUE)
                /\ UNCHANGED secureStore
    /\ UNCHANGED <<now, screen, auth>>
    /\ LimiterUntouched

\* setupPin: setItemAsync(PIN_HASH) settles (pinService.ts 49)
SWriteHash(t, ok) ==
    /\ tasks[t].pc = "s_hash"
    /\ IF ok
       THEN /\ secureStore' = [secureStore EXCEPT !.pin_hash = tasks[t].h]
            /\ tasks' = [tasks EXCEPT ![t].pc = "s_first"]
            /\ established' = NoItem
       ELSE /\ SetupReturns(t, FALSE, TRUE)
            /\ UNCHANGED secureStore
    /\ UNCHANGED <<now, screen, auth>>
    /\ LimiterUntouched

\* setupPin: setItemAsync(FIRST_LAUNCH) settles (pinService.ts 52-58)
SWriteFirstLaunch(t, ok) ==
    /\ tasks[t].pc = "s_first"
    /\ secureStore' = IF ok THEN [secureStore EXCEPT !.first_launch = <<"false">>]
                      ELSE secureStore
    /\ SetupReturns(t, ok, ~ok)
    /\ UNCHANGED <<now, screen, auth>>
    /\ LimiterUntouched

\* resetPin: deleteItemAsync(PIN_HASH) settles (pinService.ts 114, 119-122)
RDeleteHash(t, ok) ==
    /\ tasks[t].pc = "r_hash"
    /\ IF ok
       THEN /\ secureStore' = deleteItem(secureStore, "pin_hash")
            /\ tasks' = [tasks EXCEPT ![t].pc = "r_salt"]
            /\ established' = NoItem
       ELSE /\ tasks' = [tasks EXCEPT
                           ![t] = Done([tasks[t] EXCEPT !.threw = TRUE], FALSE, "null")]
            /\ UNCHANGED <<secureStore, established>>
    /\ UNCHANGED <<now, screen, auth>>
    /\ LimiterUntouched

\* resetPin: deleteItemAsync(PIN_SALT) settles, setupPin(newPin) is called
\* (pinService.ts 115-118, 119-122)
RDeleteSalt(t, ok) ==
    /\ tasks[t].pc = "r_salt"
    /\ IF ok
       THEN /\ secureStore' = deleteItem(secureStore, "pin_salt")
            /\ tasks' = [tasks EXCEPT ![t].pc = "s_salt"]
            /\ established' = NoItem
       ELSE /\ tasks' = [tasks EXCEPT
                           ![t] = Done([tasks[t] EXCEPT !.threw = TRUE], FALSE, "null")]
            /\ UNCHANGED <<secureStore, established>>
    /\ UNCHANGED <<now, screen, auth>>
    /\ LimiterUntouched

\* the caller takes the result; PinSetupScreen.handlePinConfirmed goes on to
\* onComplete = AppNavigator.handleAuthenticated (PinSetupScreen.tsx 118-124)
Return(t) ==
    /\ tasks[t].pc = "done"
    /\ tasks' = [tasks EXCEPT ![t] = IdleTask]
    /\ auth' = IF tasks[t].op = "handlePinConfirmed" /\ tasks[t].ret
               THEN [auth EXCEPT !.isAuthenticated = TRUE]
               ELSE auth
    /\ UNCHANGED <<now, screen, secureStore, established>>
    /\ LimiterUntouched

\* one resumption of a verifyPin or of a setupPin in task t; Oks holds the
\* outcomes a secure-store access may have: TRUE it answers, FALSE it throws
VerifyStep(t, Oks) ==
    \/ \E ok \in Oks : VReadHash(t, ok)
    \/ \E ok \in Oks : VReadSalt(t, ok)
    \/ VDigest(t)

SetupStep(t, Oks) ==
    \/ \E ok \in Oks, randomBytes \in RandomBytes : SWriteSalt(t, ok, randomBytes)
    \/ \E ok \in Oks : SWriteHash(t, ok)
    \/ \E ok \in Oks : SWriteFirstLaunch(t, ok)

ResetStep(t, Oks) ==
    \/ \E ok \in Oks : RDeleteHash(t, ok)
    \/ \E ok \in Oks : RDeleteSalt(t, ok)

TaskStep(t, Oks) ==
    \/ VerifyStep(t, Oks)
    \/ SetupStep(t, Oks)
    \/ Return(t)

----------------------------------------------------------------------------
(* The PIN service called one call at a time                               *)

AllIdle == \A t \in Tasks : tasks[t].pc = "idle"

NextPin ==
    \/ \E pin \in Pins : AllIdle /\ SetupPin(1, pin, "setupPin")
    \/ \E pin \in Pins : AllIdle /\ VerifyPin(1, pin)
    \/ \E currentPin \in Pins, newPin \in Pins : AllIdle /\ ChangePin(1, currentPin, newPin)
    \/ \E newPin \in Pins : AllIdle /\ ResetPin(1, newPin)
    \/ ResetStep(1, BOOLEAN)
    \/ TaskStep(1, BOOLEAN)

SpecPin == Init /\ [][NextPin]_vars

----------------------------------------------------------------------------
(* The app: AppNavigator, AuthNavigator and the two auth screens           *)

\* AuthNavigator shows PinEntryScreen or PinSetupScreen (AppNavigator 74-93,
\* AuthNavigator.tsx 25-33)
PinEntryVisible == ~auth.isLoading /\ ~auth.isAuthenticated /\ auth.isPinSet
PinSetupVisible == ~auth.isLoading /\ ~auth.isAuthenticated /\ ~auth.isPinSet

\* authStore.checkPinSetup() run by initApp (authStore.ts 48-62); isPinSetup()
\* answers false when its read throws (pinService.ts 30-38), and so does
\* isBiometricEnabled() (biometricService.ts 64-72)
checkPinSetupSet(a, store, ok, okBiometric) ==
    [a EXCEPT !.isPinSet = ok /\ store.pin_hash # NoItem,
              !.isBiometricEnabled = okBiometric /\ store.biometric_enabled = <<"true">>,
              !.isLoading = FALSE]

CheckPinSetup(ok, okBiometric) ==
    /\ auth.isLoading
    /\ auth' = checkPinSetupSet(auth, secureStore, ok, okBiometric)
    /\ UNCHANGED <<now, screen, secureStore, tasks, established>>
    /\ LimiterUntouched

\* authStore.logout() (authStore.ts 121-123)
Logout ==
    /\ auth.isAuthenticated
    /\ auth' = [auth EXCEPT !.isAuthenticated = FALSE, !.error = "null"]
    /\ UNCHANGED <<now, screen, secureStore, tasks, established>>
    /\ LimiterUntouched

\* the process is killed and started again: only the secure store survives
Restart ==
    /\ ~auth.isLoading
    /\ rateLimitState' = Open0
    /\ auth' = AuthInit
    /\ tasks' = [t \in Tasks |-> IdleTask]
    /\ lastOp' = NoOp
    /\ calls' = 0
    /\ wrongChecked' = 0
    /\ screen' = ScreenInit
    /\ UNCHANGED <<now, secureStore, established>>

SetupInFlight == \E t \in Tasks : tasks[t].op = "handlePinConfirmed"

\* the lowest free slot of T: the calls in flight are interchangeable
FreeSlot(T, t) ==
    /\ t \in T
    /\ tasks[t].pc = "idle"
    /\ \A u \in T : u < t => tasks[u].pc # "idle"

\* the app with at most Cardinality(T) calls in flight
App(T, Oks) ==
    \/ Tick
    \/ Restart
    \/ \E ok \in Oks, okBiometric \in Oks : CheckPinSetup(ok, okBiometric)
    \/ Logout
    \/ PinEntryVisible /\ CallIsLocked
    \/ \E t \in T, pin \in Pins :
          /\ PinSetupVisible /\ ~SetupInFlight /\ FreeSlot(T, t)
          /\ SetupPin(t, pin, "handlePinConfirmed")
    \/ \E t \in T, pin \in Pins :
          /\ PinEntryVisible /\ auth.failedAttempts < MaxFailed /\ FreeSlot(T, t)
          /\ Authenticate(t, pin)
    \/ \E t \in T : TaskStep(t, Oks)

\* the secure store answers every access; up to two calls in flight
Next == App(Tasks, {TRUE})

Spec == Init /\ [][Next]_vars

\* A later run of the app: the process has started, a Credential set up in an
\* earlier run is in the store and checkPinSetup() has found it
StoredPin == <<1, 3, 5, 7>>
StoredSalt == generateSalt(<<7>>)

InitLimiter ==
    /\ now = 0
    /\ rateLimitState = Open0
    /\ secureStore = [EmptyStore EXCEPT !.pin_hash = hashPin(StoredPin, StoredSalt),
                                        !.pin_salt = StoredSalt,
                                        !.first_launch = <<"false">>]
    /\ auth = [AuthInit EXCEPT !.isPinSet = TRUE, !.isLoading = FALSE]
    /\ tasks = [t \in Tasks |-> IdleTask]
    /\ lastOp = NoOp
    /\ calls = 0
    /\ wrongChecked = 0
    /\ established = StoredPin
    /\ screen = ScreenInit

\* the rate limiter under every sequence of calls of its exported functions
\* and of authenticate(pin), one call at a time
NextLimiter ==
    \/ Tick
    \/ CallIsLocked
    \/ CallRecordFailedAttempt
    \/ CallResetRateLimit
    \/ \E pin \in Pins :
          /\ AllIdle /\ auth.failedAttempts < MaxFailed
          /\ Authenticate(1, pin)
    \/ VerifyStep(1, {TRUE})
    \/ Return(1)

SpecLimiter == InitLimiter /\ [][NextLimiter]_vars

----------------------------------------------------------------------------
(* Security questions (pinService.ts 128-194).  Text is a sequence of       *)
(* character codes.                                                         *)

RECURSIVE toLowerCase(_)
\* String.prototype.toLowerCase on ASCII text: A..Z (65..90) to a..z (97..122)
toLowerCase(str) ==
    IF str = <<>> THEN <<>>
    ELSE <<IF Head(str) >= 65 /\ Head(str) <= 90 THEN Head(str) + 32 ELSE Head(str)>>
            \o toLowerCase(Tail(str))

RECURSIVE trimStart(_)
trimStart(str) ==
    IF str # <<>> /\ Head(str) = 32 THEN trimStart(Tail(str)) ELSE str

RECURSIVE trimEnd(_)
trimEnd(str) ==
    IF str # <<>> /\ str[Len(str)] = 32 THEN trimEnd(SubSeq(str, 1, Len(str) - 1)) ELSE str

\* String.prototype.trim: the blanks (32) at both ends removed
trim(str) == trimEnd(trimStart(str))

\* JSON.stringify of the question list and JSON.parse of the stored text: the
\* text is never null and never empty, and it parses back to the list
JSONstringify(list) == <<"json", list>>
JSONparse(text) == text[2]

\* the arguments of saveSecurityQuestions: "a ", "A" and "b" as answers
QuestionLists ==
    { <<>>,
      <<[question |-> "q1", answer |-> <<65, 32>>]>>,
      <<[question |-> "q1", answer |-> <<97>>], [question |-> "q2", answer |-> <<98>>]>> }

\* the arguments of verifySecurityAnswers: [], ["a"], [" A"], ["b"], ["a", "b"],
\* ["a", "a"], ["a", "b", "b"]
AnswerLists ==
    { <<>>, << <<97>> >>, << <<32, 65>> >>, << <<98>> >>, << <<97>>, <<98>> >>,
      << <<97>>, <<97>> >>, << <<97>>, <<98>>, <<98>> >> }

\* saveSecurityQuestions: every answer hashed with the salt (pinService.ts 140-145)
hashedQuestions(questions, salt) ==
    [i \in 1..Len(questions) |->
        [question   |-> questions[i].question,
         answerHash |-> hashPin(trim(toLowerCase(questions[i].answer)), salt)]]

RECURSIVE answersMatch(_, _, _, _)
\* verifySecurityAnswers, the loop from index i on (pinService.ts 170-181):
\* answers[i] is undefined past the end of answers, and toLowerCase of it
\* throws a TypeError that the catch turns into false
answersMatch(questions, answers, salt, i) ==
    IF i > Len(questions) THEN TRUE
    ELSE IF i > Len(answers) THEN FALSE
    ELSE IF hashPin(trim(toLowerCase(answers[i])), salt) # questions[i].answerHash
         THEN FALSE
         ELSE answersMatch(questions, answers, salt, i + 1)

\* saveSecurityQuestions(questions) (pinService.ts 133-137)
SaveSecurityQuestions(t, questions) ==
    /\ tasks[t].pc = "idle"
    /\ tasks' = [tasks EXCEPT ![t] = [IdleTask EXCEPT !.op = "saveSecurityQuestions",
                                                     !.pc = "q_salt", !.arg = questions]]
    /\ UNCHANGED <<now, screen, secureStore, auth, established>>
    /\ LimiterUntouched

\* saveSecurityQuestions: getItemAsync(PIN_SALT) settles, the answers are
\* hashed (pinService.ts 137-145, 153-156)
QReadSalt(t, ok) ==
    /\ tasks[t].pc = "q_salt"
    /\ tasks' = [tasks EXCEPT ![t] =
           IF ~ok THEN Done([tasks[t] EXCEPT !.threw = TRUE], FALSE, "null")
           ELSE IF secureStore.pin_salt = NoItem THEN Done(tasks[t], FALSE, "null")
           ELSE [tasks[t] EXCEPT
                   !.pc = "q_write",
                   !.h = hashedQuestions(tasks[t].arg, secureStore.pin_salt)]]
    /\ UNCHANGED <<now, screen, secureStore, auth, established>>
    /\ LimiterUntouched

\* saveSecurityQuestions: setItemAsync(SECURITY_QUESTIONS) settles (147-156)
QWrite(t, ok) ==
    /\ tasks[t].pc = "q_write"
    /\ secureStore' =
          IF ok THEN [secureStore EXCEPT !.security_questions = JSONstringify(tasks[t].h)]
          ELSE secureStore
    /\ tasks' = [tasks EXCEPT ![t] = Done([tasks[t] EXCEPT !.threw = ~ok], ok, "null")]
    /\ UNCHANGED <<now, screen, auth, established>>
    /\ LimiterUntouched

\* verifySecurityAnswers(answers) (pinService.ts 159-163)
VerifySecurityAnswers(t, answers) ==
    /\ tasks[t].pc = "idle"
    /\ tasks' = [tasks EXCEPT ![t] = [IdleTask EXCEPT !.op = "verifySecurityAnswers",
                                                     !.pc = "a_stored", !.arg = answers]]
    /\ UNCHANGED <<now, screen, secureStore, auth, established>>
    /\ LimiterUntouched

\* verifySecurityAnswers: getItemAsync(SECURITY_QUESTIONS) settles (163, 178-181)
AReadStored(t, ok) ==
    /\ tasks[t].pc = "a_stored"
    /\ tasks' = [tasks EXCEPT ![t] =
           IF ~ok THEN Done([tasks[t] EXCEPT !.threw = TRUE], FALSE, "null")
           ELSE [tasks[t] EXCEPT !.pc = "a_salt", !.h = secureStore.security_questions]]
    /\ UNCHANGED <<now, screen, secureStore, auth, established>>
    /\ LimiterUntouched

\* verifySecurityAnswers: getItemAsync(PIN_SALT) settles and the answers are
\* compared (pinService.ts 164-181)
AReadSalt(t, ok) ==
    /\ tasks[t].pc = "a_salt"
    /\ LET stored == tasks[t].h
           salt   == secureStore.pin_salt
       IN  tasks' = [tasks EXCEPT ![t] =
              IF ~ok THEN Done([tasks[t] EXCEPT !.threw = TRUE], FALSE, "null")
              ELSE IF stored = NoItem \/ salt = NoItem THEN Done(tasks[t], FALSE, "null")
              ELSE Done(tasks[t],
                        answersMatch(JSONparse(stored), tasks[t].arg, salt, 1), "null")]
    /\ UNCHANGED <<now, screen, secureStore, auth, established>>
    /\ LimiterUntouched

QuestionStep(t, Oks) ==
    \/ \E ok \in Oks : QReadSalt(t, ok)
    \/ \E ok \in Oks : QWrite(t, ok)
    \/ \E ok \in Oks : AReadStored(t, ok)
    \/ \E ok \in Oks : AReadSalt(t, ok)

\* isPinSetup() (pinService.ts 30-38): one read, false when it throws
IsPinSetup(t, ok) ==
    /\ tasks[t].pc = "idle"
    /\ tasks' = [tasks EXCEPT ![t] =
           Done([IdleTask EXCEPT !.op = "isPinSetup", !.threw = ~ok],
                ok /\ secureStore.pin_hash # NoItem, "null")]
    /\ UNCHANGED <<now, screen, secureStore, auth, established>>
    /\ LimiterUntouched

----------------------------------------------------------------------------
(* Biometric authentication (biometricService.ts, authStore.ts 103-119)     *)

\* what a call of the platform may do: answer true, answer false, throw
Answers == {"true", "false", "throws"}

\* what LocalAuthentication.authenticateAsync may settle with: success, one
\* of the result.error values, or an exception
PromptOutcomes == {"success", "user_cancel", "user_fallback", "lockout", "unknown", "throws"}

\* authenticateWithBiometric going on to the platform prompt whatever
\* isBiometricEnabled() returned
promptAllowed_Always(enabled) == TRUE

\* authenticateWithBiometric after "await isBiometricEnabled()" (106-109):
\* TRUE when it goes on to authenticateAsync
promptAllowed(enabled) == enabled

\* the error authenticateWithBiometric returns for an outcome of the prompt
\* (biometricService.ts 119-137)
promptError(outcome) ==
    CASE outcome = "success"       -> "null"
      [] outcome = "user_cancel"   -> "Authentication cancelled"
      [] outcome = "user_fallback" -> "Use PIN instead"
      [] outcome = "lockout"       -> "Too many failed attempts. Try again later."
      [] outcome = "unknown"       -> "Authentication failed"
      [] outcome = "throws"        -> "An error occurred during authentication"

\* authenticateBiometric setting isAuthenticated whatever the result
authenticateBiometricSet_Always(a, success, error) ==
    [a EXCEPT !.isAuthenticated = TRUE, !.error = "null"]

\* authenticateBiometric after "await authenticateWithBiometric" (authStore.ts 107-113)
authenticateBiometricSet(a, success, error) ==
    IF success THEN [a EXCEPT !.isAuthenticated = TRUE, !.error = "null"]
    ELSE [a EXCEPT !.error = error]

\* setBiometricEnabled(enabled) (biometricService.ts 77-88): the preference
\* is stored as the text "true" or "false"
SetBiometricEnabled(enabled, ok) ==
    /\ secureStore' =
          IF ok THEN [secureStore EXCEPT
                        !.biometric_enabled = <<IF enabled THEN "true" ELSE "false">>]
          ELSE secureStore
    /\ UNCHANGED <<now, screen, auth, tasks, established>>
    /\ LimiterUntouched

\* authStore.authenticateBiometric() (authStore.ts 103-105), which calls
\* authenticateWithBiometric, which calls isBiometricSupported (99-101, 13-15)
AuthenticateBiometric(t) ==
    /\ tasks[t].pc = "idle"
    /\ tasks' = [tasks EXCEPT
                   ![t] = [IdleTask EXCEPT !.op = "authenticateBiometric", !.pc = "b_hw"]]
    /\ UNCHANGED <<now, screen, secureStore, auth, established>>
    /\ LimiterUntouched

\* authenticateWithBiometric returns { success, error } to authenticateBiometric,
\* which resumes in the same turn (authStore.ts 105-113)
BiometricReturns(t, k, success, error) ==
    /\ tasks' = [tasks EXCEPT ![t] = Done([k EXCEPT !.valid = success], success, error)]
    /\ auth' = authenticateBiometricSet(auth, success, error)

\* isBiometricSupported: hasHardwareAsync settles (biometricService.ts 15, 18-21)
BHasHardware(t, answer) ==
    /\ tasks[t].pc = "b_hw"
    /\ IF answer = "throws"
       THEN BiometricReturns(t, tasks[t], FALSE, "Biometric not supported on this device")
       ELSE /\ tasks' = [tasks EXCEPT ![t].compatible = (answer = "true"),
                                      ![t].pc = "b_enrolled"]
            /\ UNCHANGED auth
    /\ UNCHANGED <<now, screen, secureStore, established>>
    /\ LimiterUntouched

\* isBiometricSupported: isEnrolledAsync settles, it returns compatible &&
\* enrolled, or false from its catch (biometricService.ts 16-21, 101-106)
BIsEnrolled(t, answer) ==
    /\ tasks[t].pc = "b_enrolled"
    /\ LET supported == answer # "throws" /\ tasks[t].compatible /\ answer = "true"
           k == [tasks[t] EXCEPT !.supported = supported]
       IN  IF ~supported
           THEN BiometricReturns(t, k, FALSE, "Biometric not supported on this device")
           ELSE /\ tasks' = [tasks EXCEPT ![t] = [k EXCEPT !.pc = "b_enabled"]]
                /\ UNCHANGED auth
    /\ UNCHANGED <<now, screen, secureStore, established>>
    /\ LimiterUntouched

\* isBiometricEnabled: getItemAsync(BIOMETRIC_ENABLED) settles; when enabled,
\* authenticateAsync is invoked (biometricService.ts 64-72, 106-117)
BReadEnabled(t, ok) ==
    /\ tasks[t].pc = "b_enabled"
    /\ LET enabled == ok /\ secureStore.biometric_enabled = <<"true">>
           k == [tasks[t] EXCEPT !.enabled = enabled, !.threw = ~ok]
       IN  IF ~promptAllowed(enabled)
           THEN BiometricReturns(t, k, FALSE, "Biometric authentication is not enabled")
           ELSE /\ tasks' = [tasks EXCEPT
                               ![t] = [k EXCEPT !.pc = "b_prompt", !.prompted = TRUE]]
                /\ UNCHANGED auth
    /\ UNCHANGED <<now, screen, secureStore, established>>
    /\ LimiterUntouched

\* authenticateAsync settles (biometricService.ts 112-137)
BPromptSettles(t, outcome) ==
    /\ tasks[t].pc = "b_prompt"
    /\ BiometricReturns(t, tasks[t], outcome = "success", promptError(outcome))
    /\ UNCHANGED <<now, screen, secureStore, established>>
    /\ LimiterUntouched

BiometricStep(t, Oks) ==
    \/ \E answer \in Answers : BHasHardware(t, answer)
    \/ \E answer \in Answers : BIsEnrolled(t, answer)
    \/ \E ok \in Oks : BReadEnabled(t, ok)
    \/ \E outcome \in PromptOutcomes : BPromptSettles(t, outcome)

\* the PIN entry screen of a later run with the biometric button, the rate
\* limiter counting failures meanwhile
NextBiometric ==
    \/ Tick
    \/ CallRecordFailedAttempt
    \/ Logout
    \/ \E enabled \in BOOLEAN, ok \in BOOLEAN : SetBiometricEnabled(enabled, ok)
    \/ AllIdle /\ ~auth.isAuthenticated /\ AuthenticateBiometric(1)
    \/ BiometricStep(1, BOOLEAN)
    \/ Return(1)

SpecBiometric == InitLimiter /\ [][NextBiometric]_vars

----------------------------------------------------------------------------
(* Auto-lock (pinService.ts 255-286)                                        *)

RECURSIVE toString(_)
\* Number.prototype.toString of a natural number: its decimal digits
toString(n) == IF n < 10 THEN <<n>> ELSE toString(n \div 10) \o <<n % 10>>

RECURSIVE parseInt(_)
\* parseInt(text, 10) of a text of decimal digits
parseInt(text) ==
    IF Len(text) = 1 THEN text[1]
    ELSE parseInt(SubSeq(text, 1, Len(text) - 1)) * 10 + text[Len(text)]

\* the autoLockMinutes arguments
Minutes == {1, 2}

\* getLastActive() (pinService.ts 269-276): 0 when nothing is stored and
\* when the read throws
getLastActive(store, ok) ==
    IF ~ok THEN 0
    ELSE IF store.last_active = NoItem THEN 0 ELSE parseInt(store.last_active)

\* shouldAutoLock answering false when there is no last-active time
shouldAutoLock_FailOpen(lastActive, autoLockMinutes, t) ==
    IF lastActive = 0 THEN FALSE
    ELSE t - lastActive >= autoLockMinutes * 60 * 1000

\* shouldAutoLock after "await getLastActive()" (pinService.ts 280-285), t
\* being Date.now()
shouldAutoLock(lastActive, autoLockMinutes, t) ==
    IF lastActive = 0 THEN TRUE
    ELSE LET elapsed    == t - lastActive
             autoLockMs == autoLockMinutes * 60 * 1000
         IN  elapsed >= autoLockMs

\* the clock of the auto-lock policy
TickIdle ==
    /\ now + IdleTickMs <= MaxIdleNow
    /\ now' = now + IdleTickMs
    /\ UNCHANGED <<rateLimitState, secureStore, auth, tasks, lastOp, calls, wrongChecked,
                 established, screen>>

\* updateLastActive() (pinService.ts 258-267): a write that throws is logged
UpdateLastActive(ok) ==
    /\ secureStore' = IF ok THEN [secureStore EXCEPT !.last_active = toString(now)]
                      ELSE secureStore
    /\ UNCHANGED <<now, screen, auth, tasks, established>>
    /\ LimiterUntouched

\* shouldAutoLock(autoLockMinutes) (pinService.ts 278-279)
ShouldAutoLock(t, autoLockMinutes) ==
    /\ tasks[t].pc = "idle"
    /\ tasks' = [tasks EXCEPT ![t] = [IdleTask EXCEPT !.op = "shouldAutoLock",
                                                     !.pc = "l_read",
                                                     !.minutes = autoLockMinutes]]
    /\ UNCHANGED <<now, screen, secureStore, auth, established>>
    /\ LimiterUntouched

\* shouldAutoLock: getItemAsync(LAST_ACTIVE) settles (pinService.ts 271-285)
LReadLastActive(t, ok) ==
    /\ tasks[t].pc = "l_read"
    /\ LET lastActive == getLastActive(secureStore, ok)
       IN  tasks' = [tasks EXCEPT ![t] =
              Done([tasks[t] EXCEPT !.threw = ~ok],
                   shouldAutoLock(lastActive, tasks[t].minutes, now), "null")]
    /\ UNCHANGED <<now, screen, secureStore, auth, established>>
    /\ LimiterUntouched

\* a run of the app: the clock shows a time after 1970
InitIdle ==
    /\ now = IdleTickMs
    /\ rateLimitState = Open0
    /\ secureStore = EmptyStore
    /\ auth = AuthInit
    /\ tasks = [t \in Tasks |-> IdleTask]
    /\ lastOp = NoOp
    /\ calls = 0
    /\ wrongChecked = 0
    /\ established = NoItem
    /\ screen = ScreenInit

NextIdle ==
    \/ TickIdle
    \/ \E ok \in BOOLEAN : UpdateLastActive(ok)
    \/ \E autoLockMinutes \in Minutes : AllIdle /\ ShouldAutoLock(1, autoLockMinutes)
    \/ \E ok \in BOOLEAN : LReadLastActive(1, ok)
    \/ Return(1)

SpecIdle == InitIdle /\ [][NextIdle]_vars

----------------------------------------------------------------------------
(* clearPin and deleteAccount of the auth store (authStore.ts 137-169)      *)

\* established once clearPin has deleted the Credential
Cleared == <<"cleared">>

\* the catch of clearPin: the error is logged, nothing else (authStore.ts 142-144)
clearPinCaught(a) == a

\* clearPin after both deletes (authStore.ts 141)
clearPinDone(a) == [a EXCEPT !.isPinSet = FALSE, !.isAuthenticated = FALSE]

\* authStore.clearPin() (authStore.ts 137-139)
ClearPin(t) ==
    /\ tasks[t].pc = "idle"
    /\ tasks' = [tasks EXCEPT ![t] = [IdleTask EXCEPT !.op = "clearPin", !.pc = "c_hash"]]
    /\ UNCHANGED <<now, screen, secureStore, auth, established>>
    /\ LimiterUntouched

\* clearPin: deleteItemAsync(PIN_HASH) settles (authStore.ts 139, 142-144)
CDeleteHash(t, ok) ==
    /\ tasks[t].pc = "c_hash"
    /\ IF ok
       THEN /\ secureStore' = deleteItem(secureStore, "pin_hash")
            /\ tasks' = [tasks EXCEPT ![t].pc = "c_salt"]
            /\ established' = NoItem
            /\ UNCHANGED auth
       ELSE /\ tasks' = [tasks EXCEPT
                           ![t] = Done([tasks[t] EXCEPT !.threw = TRUE], FALSE, "null")]
            /\ auth' = clearPinCaught(auth)
            /\ UNCHANGED <<secureStore, established>>
    /\ UNCHANGED <<now, screen>>
    /\ LimiterUntouched

\* clearPin: deleteItemAsync(PIN_SALT) settles (authStore.ts 140-144)
CDeleteSalt(t, ok) ==
    /\ tasks[t].pc = "c_salt"
    /\ IF ok
       THEN /\ secureStore' = deleteItem(secureStore, "pin_salt")
            /\ tasks' = [tasks EXCEPT ![t] = Done(tasks[t], FALSE, "null")]
            /\ auth' = clearPinDone(auth)
            /\ established' = Cleared
       ELSE /\ tasks' = [tasks EXCEPT
                           ![t] = Done([tasks[t] EXCEPT !.threw = TRUE], FALSE, "null")]
            /\ auth' = clearPinCaught(auth)
            /\ UNCHANGED <<secureStore, established>>
    /\ UNCHANGED <<now, screen>>
    /\ LimiterUntouched

ClearStep(t, Oks) ==
    \/ \E ok \in Oks : CDeleteHash(t, ok)
    \/ \E ok \in Oks : CDeleteSalt(t, ok)

\* the catch of deleteAccount, which throws the error on (authStore.ts 164-168)
deleteAccountCaught(a) ==
    [a EXCEPT !.isLoading = FALSE, !.error = "Failed to delete account"]

\* authStore.deleteAccount() (authStore.ts 147-152)
DeleteAccount(t) ==
    /\ tasks[t].pc = "idle"
    /\ tasks' = [tasks EXCEPT ![t] = [IdleTask EXCEPT !.op = "deleteAccount", !.pc = "d_db"]]
    /\ auth' = [auth EXCEPT !.isLoading = TRUE]
    /\ UNCHANGED <<now, screen, secureStore, established>>
    /\ LimiterUntouched

\* deleteAccount: one of its awaits threw
DeleteThrows(t) ==
    /\ tasks' = [tasks EXCEPT
                   ![t] = Done([tasks[t] EXCEPT !.threw = TRUE, !.propagated = TRUE],
                               FALSE, "Failed to delete account")]
    /\ auth' = deleteAccountCaught(auth)
    /\ UNCHANGED <<secureStore, established>>

\* deleteAccount: clearAllData() settles (authStore.ts 152)
DClearAllData(t, ok) ==
    /\ tasks[t].pc = "d_db"
    /\ IF ok
       THEN /\ tasks' = [tasks EXCEPT ![t].pc = "d_hash"]
            /\ UNCHANGED <<secureStore, auth, established>>
       ELSE DeleteThrows(t)
    /\ UNCHANGED <<now, screen>>
    /\ LimiterUntouched

\* deleteAccount: deleteItemAsync(PIN_HASH) settles (authStore.ts 155)
DDeleteHash(t, ok) ==
    /\ tasks[t].pc = "d_hash"
    /\ IF ok
       THEN /\ secureStore' = deleteItem(secureStore, "pin_hash")
            /\ tasks' = [tasks EXCEPT ![t].pc = "d_salt"]
            /\ established' = NoItem
            /\ UNCHANGED auth
       ELSE DeleteThrows(t)
    /\ UNCHANGED <<now, screen>>
    /\ LimiterUntouched

\* deleteAccount: deleteItemAsync(PIN_SALT) settles (authStore.ts 156-163)
DDeleteSalt(t, ok) ==
    /\ tasks[t].pc = "d_salt"
    /\ IF ok
       THEN /\ secureStore' = deleteItem(secureStore, "pin_salt")
            /\ tasks' = [tasks EXCEPT ![t] = Done(tasks[t], TRUE, "null")]
            /\ auth' = [auth EXCEPT !.isPinSet = FALSE, !.isAuthenticated = FALSE,
                                    !.isLoading = FALSE, !.isBiometricEnabled = FALSE]
            /\ established' = NoItem
       ELSE DeleteThrows(t)
    /\ UNCHANGED <<now, screen>>
    /\ LimiterUntouched

DeleteStep(t, Oks) ==
    \/ \E ok \in Oks : DClearAllData(t, ok)
    \/ \E ok \in Oks : DDeleteHash(t, ok)
    \/ \E ok \in Oks : DDeleteSalt(t, ok)

----------------------------------------------------------------------------
(* The Credential and the questions under the calls that create and delete  *)
(* them, one call at a time, over a secure store whose accesses may throw   *)

NextAccount ==
    \/ \E ok \in BOOLEAN, okBiometric \in BOOLEAN : AllIdle /\ CheckPinSetup(ok, okBiometric)
    \/ AllIdle /\ Logout
    \/ \E pin \in Pins :
          /\ AllIdle /\ PinSetupVisible
          /\ SetupPin(1, pin, "handlePinConfirmed")
    \/ AllIdle /\ ~auth.isLoading /\ ClearPin(1)
    \/ AllIdle /\ auth.isAuthenticated /\ DeleteAccount(1)
    \/ \E ok \in BOOLEAN : AllIdle /\ IsPinSetup(1, ok)
    \/ \E pin \in Pins : AllIdle /\ VerifyPin(1, pin)
    \/ \E newPin \in Pins : AllIdle /\ ResetPin(1, newPin)
    \/ \E questions \in QuestionLists : AllIdle /\ SaveSecurityQuestions(1, questions)
    \/ \E answers \in AnswerLists : AllIdle /\ VerifySecurityAnswers(1, answers)
    \/ ClearStep(1, BOOLEAN)
    \/ DeleteStep(1, BOOLEAN)
    \/ ResetStep(1, BOOLEAN)
    \/ QuestionStep(1, BOOLEAN)
    \/ TaskStep(1, BOOLEAN)

SpecAccount == Init /\ [][NextAccount]_vars

----------------------------------------------------------------------------
(* The app and the PIN service, one call at a time, over a secure store     *)
(* whose accesses may throw                                                 *)

NextFaults ==
    \/ \E ok \in BOOLEAN, okBiometric \in BOOLEAN : AllIdle /\ CheckPinSetup(ok, okBiometric)
    \/ AllIdle /\ Logout
    \/ \E pin \in Pins :
          /\ AllIdle /\ PinSetupVisible
          /\ SetupPin(1, pin, "handlePinConfirmed")
    \/ \E pin \in Pins :
          /\ AllIdle /\ PinEntryVisible /\ auth.failedAttempts < MaxFailed
          /\ Authenticate(1, pin)
    \/ \E ok \in BOOLEAN : AllIdle /\ IsPinSetup(1, ok)
    \/ \E pin \in Pins : AllIdle /\ VerifyPin(1, pin)
    \/ \E pin \in Pins : AllIdle /\ SetupPin(1, pin, "setupPin")
    \/ TaskStep(1, BOOLEAN)

SpecFaults == Init /\ [][NextFaults]_vars

----------------------------------------------------------------------------
(* The PIN service with a verifyPin (task 1) and a setupPin or resetPin     *)
(* (task 2) in flight at once, over the Credential of an earlier run        *)

NextCred ==
    \/ \E pin \in Pins : VerifyPin(1, pin)
    \/ \E pin \in Pins : SetupPin(2, pin, "setupPin")
    \/ \E newPin \in Pins : ResetPin(2, newPin)
    \/ \E t \in Tasks : ResetStep(t, {TRUE})
    \/ \E t \in Tasks : TaskStep(t, {TRUE})

SpecCred == InitLimiter /\ [][NextCred]_vars

----------------------------------------------------------------------------
(* PIN format validation (src/src/utils/formatters.ts) and PinSetupScreen  *)
(* A PIN text is the sequence of its characters: 0..9 stand for the        *)
(* digits '0'..'9', any other number for another character.                *)

\* String.prototype.includes: s occurs in text as a contiguous substring
includes(text, s) ==
    \E k \in 0..(Len(text) - Len(s)) : SubSeq(text, k + 1, k + Len(s)) = s

\* /^\d+$/.test(pin)
digitsOnly(pin) == pin # <<>> /\ \A i \in 1..Len(pin) : pin[i] \in 0..9

\* /^(\d)\1+$/.test(pin)
repeatedDigit(pin) ==
    /\ Len(pin) >= 2
    /\ pin[1] \in 0..9
    /\ \A i \in 2..Len(pin) : pin[i] = pin[1]

\* validatePin with the runs looked up in '0123456789' and '9876543210'
validatePin_NoWrap(pin, minLength, maxLength) ==
    LET sequential == <<0, 1, 2, 3, 4, 5, 6, 7, 8, 9>>
        reverseSequential == <<9, 8, 7, 6, 5, 4, 3, 2, 1, 0>>
    IN  IF pin = <<>> \/ ~digitsOnly(pin) \/ Len(pin) < minLength \/ Len(pin) > maxLength
        THEN [valid |-> FALSE, error |-> "PIN format"]
        ELSE IF includes(sequential, pin) \/ includes(reverseSequential, pin)
        THEN [valid |-> FALSE, error |-> "PIN should not be a sequential pattern"]
        ELSE IF repeatedDigit(pin)
        THEN [valid |-> FALSE, error |-> "PIN should not be all the same digit"]
        ELSE [valid |-> TRUE, error |-> "undefined"]

\* validatePin(pin, minLength, maxLength) (formatters.ts 173-206)
validatePin(pin, minLength, maxLength) ==
    LET sequential == <<0, 1, 2, 3, 4, 5, 6, 7, 8, 9, 0>>
        reverseSequential == <<0, 9, 8, 7, 6, 5, 4, 3, 2, 1, 0>>
    IN  IF pin = <<>>
        THEN [valid |-> FALSE, error |-> "PIN is required"]
        ELSE IF ~digitsOnly(pin)
        THEN [valid |-> FALSE, error |-> "PIN must contain only numbers"]
        ELSE IF Len(pin) < minLength
        THEN [valid |-> FALSE, error |-> "PIN must be at least minLength digits"]
        ELSE IF Len(pin) > maxLength
        THEN [valid |-> FALSE, error |-> "PIN must not exceed maxLength digits"]
        ELSE IF includes(sequential, pin) \/ includes(reverseSequential, pin)
        THEN [valid |-> FALSE, error |-> "PIN should not be a sequential pattern"]
        ELSE IF repeatedDigit(pin)
        THEN [valid |-> FALSE, error |-> "PIN should not be all the same digit"]
        ELSE [valid |-> TRUE, error |-> "undefined"]

\* The texts validatePin is called with on its own: from every digit, the
\* runs of 3, 4, 6 and 7 characters that step by +1, -1, 0 or +3 modulo 10,
\* each also with its last character moved by 5 and with its last character
\* replaced by the letter 'a' (97), and the empty text
RunLengths == {3, 4, 6, 7}
RunSteps == {1, 9, 0, 3}
Run(d, step, len) == [i \in 1..len |-> (d + (i - 1) * step) % 10]
Candidates ==
    LET runs == { Run(d, step, len) : d \in 0..9, step \in RunSteps, len \in RunLengths }
    IN  runs \cup { [r EXCEPT ![Len(r)] = (@ + 5) % 10] : r \in runs }
             \cup { [r EXCEPT ![Len(r)] = 97] : r \in runs }
             \cup { <<>> }

\* The PINs a user keys in on PinSetupScreen, digit by digit
SetupKeys ==
    { <<1, 3, 5, 7, 9, 2>>, <<2, 4, 6, 8>>, <<1, 1, 1, 1>>, <<1, 2, 3, 4>>,
      <<7, 8, 9, 0>>, <<0, 9, 8, 7, 6>> }

\* text is the beginning of one of the PINs of keys
KeyedFrom(keys, text) ==
    \E k \in keys : Len(text) <= Len(k) /\ SubSeq(k, 1, Len(text)) = text

\* the mismatch timers pending at once
MaxTimers == 1

\* a step of a screen that leaves everything but the screen as it is
OnlyScreen ==
    UNCHANGED <<now, rateLimitState, secureStore, auth, tasks, lastOp, calls,
                wrongChecked, established>>

\* String.prototype.slice(0, -1)
dropLast(text) == SubSeq(text, 1, Len(text) - 1)

\* validatePin called on its own, once, before a PIN is keyed in
ValidatePin(pin) ==
    /\ screen = ScreenInit /\ AllIdle
    /\ screen' = [screen EXCEPT
                    !.checked = [pin |-> pin,
                                 valid |-> validatePin(pin, MIN_PIN_LENGTH,
                                                       MAX_PIN_LENGTH).valid]]
    /\ OnlyScreen

\* PinSetupScreen.handleDigitPress(digit) (PinSetupScreen.tsx 69-92); PinPad
\* is disabled while handlePinConfirmed runs (loading, line 260)
SetupDigitPress(digit) ==
    /\ PinSetupVisible /\ AllIdle
    /\ LET currentPin == IF screen.step = "create" THEN screen.pin ELSE screen.confirmPin
           newPin == currentPin \o <<digit>>
       IN  /\ Len(currentPin) < MAX_PIN_LENGTH
           /\ KeyedFrom(SetupKeys, newPin)
           /\ IF screen.step = "create"
              THEN /\ screen' = [screen EXCEPT !.pin = newPin, !.checked = NoItem]
                   /\ OnlyScreen
              ELSE IF Len(newPin) = Len(screen.pin) /\ newPin = screen.pin
              THEN /\ screen' = [screen EXCEPT !.confirmPin = newPin, !.checked = NoItem]
                   /\ SetupPinBegins(1, screen.pin, "handlePinConfirmed")
              ELSE /\ Len(newPin) = Len(screen.pin) => screen.timers < MaxTimers
                   /\ screen' = [screen EXCEPT
                                   !.confirmPin = newPin, !.checked = NoItem,
                                   !.timers = IF Len(newPin) = Len(screen.pin)
                                              THEN @ + 1 ELSE @]
                   /\ OnlyScreen

\* the setTimeout of a mismatch fires: setConfirmPin('') (PinSetupScreen.tsx 85-88)
SetupTimeout ==
    /\ screen.timers > 0
    /\ screen' = [screen EXCEPT !.confirmPin = <<>>, !.timers = @ - 1, !.checked = NoItem]
    /\ OnlyScreen

\* PinSetupScreen.handleDelete (PinSetupScreen.tsx 94-101)
SetupDelete ==
    /\ PinSetupVisible /\ AllIdle
    /\ IF screen.step = "create"
       THEN /\ screen.pin # <<>>
            /\ screen' = [screen EXCEPT !.pin = dropLast(@), !.checked = NoItem]
       ELSE /\ screen.confirmPin # <<>>
            /\ screen' = [screen EXCEPT !.confirmPin = dropLast(@), !.checked = NoItem]
    /\ OnlyScreen

\* PinSetupScreen.handleContinue (PinSetupScreen.tsx 103-112); the button is
\* rendered on the create step once MIN_PIN_LENGTH digits are keyed (243)
HandleContinue ==
    /\ PinSetupVisible
    /\ screen.step = "create" /\ Len(screen.pin) >= MIN_PIN_LENGTH
    /\ LET validation == validatePin(screen.pin, MIN_PIN_LENGTH, MAX_PIN_LENGTH)
       IN  screen' = [screen EXCEPT
                        !.step = IF validation.valid THEN "confirm" ELSE @,
                        !.checked = [pin |-> screen.pin, valid |-> validation.valid]]
    /\ OnlyScreen

\* "Start Over" on the confirm step (PinSetupScreen.tsx 266-281)
StartOver ==
    /\ PinSetupVisible
    /\ screen.step = "confirm"
    /\ screen' = [screen EXCEPT !.step = "create", !.pin = <<>>, !.confirmPin = <<>>,
                                !.checked = NoItem]
    /\ OnlyScreen

\* PinSetupScreen of a first run; the secure store may throw
NextSetupScreen ==
    \/ CheckPinSetup(TRUE, TRUE)
    \/ \E pin \in Candidates : ValidatePin(pin)
    \/ \E digit \in 0..9 : SetupDigitPress(digit)
    \/ SetupTimeout
    \/ SetupDelete
    \/ HandleContinue
    \/ StartOver
    \/ SetupStep(1, BOOLEAN)
    \/ Return(1)

SpecSetupScreen == Init /\ [][NextSetupScreen]_vars

----------------------------------------------------------------------------
(* authenticate(pin) one call at a time while the clock advances: nothing  *)
(* else calls the rate limiter                                             *)

NextAttempts ==
    \/ Tick
    \/ \E pin \in Pins :
          /\ AllIdle /\ auth.failedAttempts < MaxFailed
          /\ Authenticate(1, pin)
    \/ VerifyStep(1, {TRUE})
    \/ Return(1)

SpecAttempts == InitLimiter /\ [][NextAttempts]_vars

----------------------------------------------------------------------------
(* PinEntryScreen (src/src/screens/auth/SplashScreen.tsx 104-231)          *)

\* The PINs a user keys in on PinEntryScreen, digit by digit
EntryKeys == EntryPins \cup { <<2, 4, 6, 8, 2, 4>>, <<1, 3, 5, 8>>, <<1, 3, 5, 7, 9, 4>> }

\* PinEntryScreen.handleDigitPress(digit) up to "await authenticate(newPin)"
\* (SplashScreen.tsx 191-201), each press after the one before has finished
EntryDigitPress(digit) ==
    /\ PinEntryVisible /\ AllIdle
    /\ ~screen.locked /\ ~screen.isSuccess
    /\ Len(screen.entry) < MAX_PIN_LENGTH
    /\ KeyedFrom(EntryKeys, screen.keyed \o <<digit>>)
    /\ LET newPin == screen.entry \o <<digit>>
       IN  /\ screen' = [screen EXCEPT !.entry = newPin, !.keyed = @ \o <<digit>>]
           /\ IF Len(newPin) >= MIN_PIN_LENGTH
              THEN AuthenticateBegins(1, newPin)
              ELSE OnlyScreen

\* handleDigitPress after "await authenticate(newPin)" (SplashScreen.tsx
\* 202-214): showSuccess, whose onSuccess calls setAuthenticated(true), or
\* isLocked() and the timer that will empty the entry
EntryResumes ==
    /\ tasks[1].op = "authenticate" /\ tasks[1].pc = "done"
    /\ tasks' = [tasks EXCEPT ![1] = IdleTask]
    /\ IF tasks[1].ret
       THEN /\ screen' = [screen EXCEPT !.isSuccess = TRUE]
            /\ auth' = [auth EXCEPT !.isAuthenticated = TRUE]
            /\ LimiterUntouched
       ELSE LET r == isLocked(rateLimitState, now)
            IN  /\ Limiter("isLocked", r.state, r.ret)
                /\ Guesses(r.state, 0)
                /\ screen' = [screen EXCEPT !.locked = @ \/ r.ret, !.timers = @ + 1]
                /\ UNCHANGED auth
    /\ UNCHANGED <<now, secureStore, established>>

\* the timer fires: setPin('') (SplashScreen.tsx 213)
EntryTimeout ==
    /\ screen.timers > 0
    /\ screen' = [screen EXCEPT !.entry = <<>>, !.timers = @ - 1]
    /\ OnlyScreen

\* A later run over a Credential of any permitted length: PinEntryScreen is
\* mounted with an empty entry and no failed attempt
InitEntry ==
    /\ now = 0
    /\ rateLimitState = Open0
    /\ \E pin \in EntryPins :
          /\ secureStore = [EmptyStore EXCEPT !.pin_hash = hashPin(pin, StoredSalt),
                                              !.pin_salt = StoredSalt,
                                              !.first_launch = <<"false">>]
          /\ established = pin
    /\ auth = [AuthInit EXCEPT !.isPinSet = TRUE, !.isLoading = FALSE]
    /\ tasks = [t \in Tasks |-> IdleTask]
    /\ lastOp = NoOp
    /\ calls = 0
    /\ wrongChecked = 0
    /\ screen = ScreenInit

NextEntry ==
    \/ \E digit \in 0..9 : EntryDigitPress(digit)
    \/ VerifyStep(1, {TRUE})
    \/ EntryResumes
    \/ EntryTimeout

SpecEntry == InitEntry /\ [][NextEntry]_vars

----------------------------------------------------------------------------
(* Erasing the Credential, biometric unlock and the next start of the app, *)
(* one call at a time over the Credential of an earlier run; the deletes   *)
(* of the secure store may throw                                           *)

NextErase ==
    \/ Restart
    \/ \E ok \in BOOLEAN, okBiometric \in BOOLEAN :
          AllIdle /\ CheckPinSetup(ok, okBiometric)
    \/ AllIdle /\ Logout
    \/ \E pin \in Pins :
          /\ AllIdle /\ PinSetupVisible
          /\ SetupPin(1, pin, "handlePinConfirmed")
    \/ \E enabled \in BOOLEAN :
          AllIdle /\ ~auth.isLoading /\ SetBiometricEnabled(enabled, TRUE)
    \/ AllIdle /\ ~auth.isLoading /\ ClearPin(1)
    \/ AllIdle /\ auth.isAuthenticated /\ DeleteAccount(1)
    \/ AllIdle /\ ~auth.isLoading /\ ~auth.isAuthenticated /\ AuthenticateBiometric(1)
    \/ ClearStep(1, BOOLEAN)
    \/ DeleteStep(1, BOOLEAN)
    \/ BiometricStep(1, {TRUE})
    \/ SetupStep(1, {TRUE})
    \/ Return(1)

SpecErase == InitLimiter /\ [][NextErase]_vars

----------------------------------------------------------------------------
(* Recovery: the security questions while the PIN is replaced, one call at *)
(* a time over the Credential of an earlier run; the store answers         *)

\* what verifySecurityAnswers(answers) returns over store (pinService.ts 159-177)
verifySecurityAnswers(store, answers) ==
    IF store.security_questions = NoItem \/ store.pin_salt = NoItem
    THEN FALSE
    ELSE answersMatch(JSONparse(store.security_questions), answers, store.pin_salt, 1)

NextRecovery ==
    \/ \E questions \in QuestionLists : AllIdle /\ SaveSecurityQuestions(1, questions)
    \/ \E answers \in AnswerLists : AllIdle /\ VerifySecurityAnswers(1, answers)
    \/ \E currentPin \in Pins, newPin \in Pins : AllIdle /\ ChangePin(1, currentPin, newPin)
    \/ \E newPin \in Pins : AllIdle /\ ResetPin(1, newPin)
    \/ QuestionStep(1, {TRUE})
    \/ ResetStep(1, {TRUE})
    \/ TaskStep(1, {TRUE})

SpecRecovery == InitLimiter /\ [][NextRecovery]_vars

----------------------------------------------------------------------------
(* Properties                                                              *)

\* the limiter is Locked: the counter reached the maximum and the window is open
Locked ==
    /\ rateLimitState.failedAttempts >= MAX_FAILED_ATTEMPTS
    /\ rateLimitState.lockUntil # Null
    /\ now < rateLimitState.lockUntil

\* this step is a call of recordFailedAttempt()
RecordStep == calls' = calls + 1

\* in this step the authenticate call of task t returns
AuthReturns(t) ==
    /\ tasks[t].pc # "done"
    /\ tasks'[t].pc = "done"
    /\ tasks'[t].op = "authenticate"

\* C1: an authenticate(pin) call returns true and sets isAuthenticated exactly
\* when its isLocked() was false and its verifyPin(pin) returned true; every
\* other call returns false and leaves isAuthenticated as it was.
C1_AuthenticatesIffUnlockedAndVerified ==
    [][\A t \in Tasks : AuthReturns(t) =>
          LET k == tasks'[t]
          IN  /\ k.ret <=> (~k.locked /\ k.valid)
              /\ auth'.isAuthenticated =
                    IF ~k.locked /\ k.valid THEN TRUE ELSE auth.isAuthenticated]_vars

C1_Witness ==
    \E t \in Tasks :
        /\ tasks[t].op = "authenticate" /\ tasks[t].pc = "done"
        /\ tasks[t].ret /\ ~tasks[t].locked /\ tasks[t].valid
        /\ auth.isAuthenticated

\* C2: with several authenticate(pin) calls in flight, between two resets of
\* the limiter no update of failedAttempts is lost and verifyPin answers at
\* most MAX_FAILED_ATTEMPTS wrong guesses.
C2_LockoutNotBypassed ==
    /\ rateLimitState.failedAttempts = calls
    /\ wrongChecked <= MAX_FAILED_ATTEMPTS

\* C3: the 5th recordFailedAttempt() since the limiter was Open with counter 0
\* leaves isLocked() true and getRemainingLockTime() = LOCKOUT_DURATION_MS at
\* the clock value of the call; after fewer calls isLocked() is false.
C3_LockedAfterMaxFailures ==
    [][RecordStep =>
          /\ calls' = MAX_FAILED_ATTEMPTS =>
                /\ isLocked(rateLimitState', now').ret
                /\ getRemainingLockTime(rateLimitState', now') = LOCKOUT_DURATION_MS
          /\ calls' < MAX_FAILED_ATTEMPTS => ~isLocked(rateLimitState', now').ret]_vars

C3_Witness ==
    /\ calls = MAX_FAILED_ATTEMPTS
    /\ lastOp.op = "recordFailedAttempt"
    /\ lastOp.pre = [failedAttempts |-> MAX_FAILED_ATTEMPTS - 1, lockUntil |-> Null]
    /\ isLocked(rateLimitState, now).ret
    /\ getRemainingLockTime(rateLimitState, now) = LOCKOUT_DURATION_MS

\* C4: isLocked() called with a lock set and the clock at or past lockUntil
\* returns false and leaves failedAttempts = 0 and lockUntil = null, and the
\* recordFailedAttempt() that follows it leaves failedAttempts = 1, no lock.
C4_ExpiryResetsCounter ==
    [][/\ (CallIsLocked \/ \E t \in Tasks, pin \in Pins : Authenticate(t, pin))
             /\ rateLimitState.lockUntil # Null
             /\ now >= rateLimitState.lockUntil
          => (~lastOp'.ret /\ rateLimitState' = Open0)
       /\ (RecordStep /\ FoundExpired(lastOp))
          => rateLimitState' = [failedAttempts |-> 1, lockUntil |-> Null]]_vars

C4_Witness ==
    /\ lastOp.op = "recordFailedAttempt"
    /\ lastOp.afterExpiry
    /\ rateLimitState = [failedAttempts |-> 1, lockUntil |-> Null]
    /\ ~isLocked(rateLimitState, now).ret

\* C5: recordFailedAttempt() called while the limiter is Locked increments
\* failedAttempts and leaves lockUntil unchanged.
C5_LockNotExtended ==
    [][RecordStep /\ Locked =>
          /\ rateLimitState'.failedAttempts = rateLimitState.failedAttempts + 1
          /\ rateLimitState'.lockUntil = rateLimitState.lockUntil]_vars

\* C6: authenticate(pin) called while the limiter is Locked returns false at
\* once, without verifyPin or recordFailedAttempt, and leaves rateLimitState
\* as it was.
C6_LockedCallNotCounted ==
    [][\A t \in Tasks, pin \in Pins : Authenticate(t, pin) /\ Locked =>
          /\ tasks'[t].pc = "done" /\ ~tasks'[t].ret
          /\ rateLimitState' = rateLimitState
          /\ calls' = calls /\ wrongChecked' = wrongChecked]_vars

C6_Witness ==
    \E t \in Tasks :
        /\ tasks[t].op = "authenticate" /\ tasks[t].pc = "done"
        /\ tasks[t].locked /\ ~tasks[t].ret
        /\ lastOp.op = "isLocked" /\ lastOp.ret /\ lastOp.pre = rateLimitState
        /\ Locked

\* C7: lockUntil is set only when failedAttempts >= MAX_FAILED_ATTEMPTS.
C7_LockOnlyAtMax ==
    rateLimitState.lockUntil # Null =>
        rateLimitState.failedAttempts >= MAX_FAILED_ATTEMPTS

C7_Witness ==
    /\ rateLimitState.lockUntil # Null
    /\ rateLimitState.failedAttempts > MAX_FAILED_ATTEMPTS

\* C8: resetRateLimit() leaves failedAttempts = 0 and lockUntil = null from
\* every state, and every authenticate(pin) that returns true has called it.
C8_ResetOpens ==
    [][/\ CallResetRateLimit => rateLimitState' = Open0
       /\ \A t \in Tasks : AuthReturns(t) /\ tasks'[t].ret =>
             /\ lastOp'.op = "resetRateLimit"
             /\ lastOp'.pre = rateLimitState
             /\ rateLimitState' = Open0]_vars

C8_Witness ==
    /\ \E t \in Tasks :
          tasks[t].op = "authenticate" /\ tasks[t].pc = "done" /\ tasks[t].ret
    /\ lastOp.op = "resetRateLimit"
    /\ lastOp.pre.lockUntil # Null
    /\ rateLimitState = Open0

\* C9: once setupPin(p) has returned true, a verifyPin(x) whose reads of the
\* store answer returns true for x = p and false for every other x.
C9_SetupThenVerify ==
    \A t \in Tasks :
        /\ tasks[t].op = "verifyPin" /\ tasks[t].pc = "done"
        /\ ~tasks[t].threw /\ established # NoItem
        => (tasks[t].ret <=> tasks[t].pin = established)

C9_Witness ==
    \E t \in Tasks :
        /\ tasks[t].op = "verifyPin" /\ tasks[t].pc = "done"
        /\ ~tasks[t].threw /\ established = tasks[t].pin /\ tasks[t].ret

WrongCurrent == "Current PIN is incorrect"

\* C10 as claimed: changePin(current, new) fails with the wrong-current-PIN
\* error and an unchanged Credential when verifyPin(current) would be false,
\* and otherwise succeeds with verifyPin(new) true and verifyPin(current)
\* false afterwards (here for the calls in which no store access threw).
C10_AsClaimed ==
    \A t \in Tasks :
        LET k == tasks[t]
        IN  k.op = "changePin" /\ k.pc = "done" /\ ~k.threw =>
              IF ~verifyPin(k.store0, k.pin)
              THEN ~k.ret /\ k.error = WrongCurrent /\ secureStore = k.store0
              ELSE /\ k.ret
                   /\ verifyPin(secureStore, k.newPin)
                   /\ ~verifyPin(secureStore, k.pin)

\* C10 amended: changePin(current, new) fails with the wrong-current-PIN error
\* and an unchanged store whenever its verifyPin(current) returned false, which
\* it does when verifyPin(current) would be false; when no store access throws
\* it otherwise succeeds; after a success verifyPin(new) is true and
\* verifyPin(current) is true only if new = current; a call that neither
\* succeeds nor reports the wrong current PIN reports "Failed to set new PIN"
\* after a store write threw.
C10_ChangePin ==
    \A t \in Tasks :
        LET k == tasks[t]
        IN  k.op = "changePin" /\ k.pc = "done" =>
              /\ ~verifyPin(k.store0, k.pin) => k.error = WrongCurrent
              /\ k.error = WrongCurrent =>
                    ~k.ret /\ ~k.valid /\ secureStore = k.store0
              /\ verifyPin(k.store0, k.pin) /\ ~k.threw => k.ret
              /\ k.ret =>
                    /\ k.error = "null"
                    /\ verifyPin(secureStore, k.newPin)
                    /\ verifyPin(secureStore, k.pin) <=> k.pin = k.newPin
              /\ ~k.ret /\ k.error # WrongCurrent =>
                    k.error = "Failed to set new PIN" /\ k.threw

C10_Witness ==
    \E t \in Tasks :
        LET k == tasks[t]
        IN  /\ k.op = "changePin" /\ k.pc = "done" /\ k.ret
            /\ k.pin # k.newPin
            /\ verifyPin(k.store0, k.pin)
            /\ verifyPin(secureStore, k.newPin)
            /\ ~verifyPin(secureStore, k.pin)

\* the salt and the hash in the store belong together: the hash is the digest
\* of some PIN with that salt
BelongTogether(store) == store.pin_salt # NoItem /\ Pair(store.pin_hash, store.pin_salt)

NoCredential(store) == store.pin_hash = NoItem /\ store.pin_salt = NoItem

\* C11: a setupPin in which a secure-store write failed, called on its own or
\* through changePin or resetPin, reports failure and leaves the store with
\* no Credential or with a salt and a hash that belong together.
C11_NoPartialCredential ==
    \A t \in Tasks :
        LET k == tasks[t]
        IN  /\ k.op \in {"setupPin", "changePin", "resetPin"}
            /\ k.pc = "done" /\ k.threw
            => /\ ~k.ret
               /\ NoCredential(secureStore) \/ BelongTogether(secureStore)

\* C12: a verifyPin that runs while a setupPin or resetPin is in flight
\* compares a hash and a salt that belong together, both of the old or both
\* of the new Credential.
C12_NoMixedRead ==
    \A t \in Tasks :
        tasks[t].op = "verifyPin" /\ tasks[t].pc = "done" => ~tasks[t].mixed

\* C13: clearPin(), from Authenticated or Unauthenticated and whatever the
\* outcome of its deletes, ends with pin_hash and pin_salt deleted, isPinSet
\* false and isAuthenticated false.
C13_ClearPinAlwaysClears ==
    \A t \in Tasks :
        tasks[t].op = "clearPin" /\ tasks[t].pc = "done" =>
            /\ NoCredential(secureStore)
            /\ ~auth.isPinSet
            /\ ~auth.isAuthenticated

\* C14: once clearPin has deleted the Credential, isPinSetup() is false,
\* verifyPin(x) is false for every x and verifySecurityAnswers(answers) returns
\* false, without throwing, for every answers list, with the questions saved
\* earlier still in the store.
C14_ClearedRejectsAll ==
    \A t \in Tasks :
        LET k == tasks[t]
        IN  /\ k.op \in {"isPinSetup", "verifyPin", "verifySecurityAnswers"}
            /\ k.pc = "done" /\ established = Cleared
            => ~k.ret /\ ~k.propagated

C14_Witness ==
    \E t \in Tasks :
        LET k == tasks[t]
        IN  /\ k.op = "verifySecurityAnswers" /\ k.pc = "done" /\ ~k.threw
            /\ established = Cleared
            /\ secureStore.security_questions # NoItem
            /\ Len(JSONparse(secureStore.security_questions)) = 2
            /\ k.arg = << <<97>>, <<98>> >>
            /\ ~k.ret

\* C15: security_questions is stored only if pin_salt and pin_hash are.
C15_QuestionsNeedCredential ==
    secureStore.security_questions # NoItem =>
        secureStore.pin_salt # NoItem /\ secureStore.pin_hash # NoItem

\* C16: verifySecurityAnswers(answers), with questions and salt stored and
\* read, returns true exactly when answers is as long as the stored question
\* list and every answer matches its question; a shorter or a longer answers
\* list and a positional mismatch give false.
C16_AnswersMatchExactly ==
    \A t \in Tasks :
        LET k == tasks[t]
            questions == JSONparse(secureStore.security_questions)
            salt == secureStore.pin_salt
        IN  /\ k.op = "verifySecurityAnswers" /\ k.pc = "done" /\ ~k.threw
            /\ secureStore.security_questions # NoItem /\ salt # NoItem
            => (k.ret <=>
                  /\ Len(k.arg) = Len(questions)
                  /\ \A i \in 1..Len(questions) :
                        hashPin(trim(toLowerCase(k.arg[i])), salt)
                            = questions[i].answerHash)

\* a step of the authenticateBiometric call of task t
BiometricMoves(t) ==
    /\ tasks'[t] # tasks[t]
    /\ tasks'[t].op = "authenticateBiometric"

\* C17: authenticateBiometric() sets isAuthenticated and returns true exactly
\* when authenticateWithBiometric succeeded, otherwise it leaves
\* isAuthenticated as it was, and no step of it calls a function of the rate
\* limiter or changes failedAttempts or lockUntil, Locked or not.
C17_BiometricLeavesLimiter ==
    [][\A t \in Tasks : BiometricMoves(t) =>
          /\ rateLimitState' = rateLimitState
          /\ lastOp' = lastOp /\ calls' = calls
          /\ tasks'[t].pc = "done" =>
                /\ tasks'[t].ret = tasks'[t].valid
                /\ auth'.isAuthenticated =
                      IF tasks'[t].valid THEN TRUE ELSE auth.isAuthenticated]_vars

C17_Witness ==
    \E t \in Tasks :
        /\ tasks[t].op = "authenticateBiometric" /\ tasks[t].pc = "done"
        /\ tasks[t].valid /\ tasks[t].ret
        /\ auth.isAuthenticated
        /\ Locked

\* C18: authenticateWithBiometric invokes the platform prompt only after
\* isBiometricSupported() and isBiometricEnabled() both returned true; when one
\* of them returned false, also from its catch, the call fails unprompted.
C18_PromptOnlyWhenSupportedAndEnabled ==
    \A t \in Tasks :
        LET k == tasks[t]
        IN  k.op = "authenticateBiometric" =>
              /\ k.prompted => k.supported /\ k.enabled
              /\ k.pc = "done" /\ ~(k.supported /\ k.enabled) => ~k.ret /\ ~k.prompted

C18_Witness ==
    \E t \in Tasks :
        LET k == tasks[t]
        IN  /\ k.op = "authenticateBiometric" /\ k.pc = "b_prompt"
            /\ k.prompted /\ k.supported /\ k.enabled

\* C19: a verifyPin, setupPin, isPinSetup or authenticate call in which a
\* secure-store access threw returns false, does not throw to its caller and
\* does not set isAuthenticated, nor does the screen that awaited it.
C19_StoreFaultFails ==
    [][\A t \in Tasks :
          /\ tasks'[t].op \in {"verifyPin", "setupPin", "isPinSetup", "authenticate",
                               "handlePinConfirmed"}
             /\ tasks'[t].pc = "done" /\ tasks[t].pc # "done" /\ tasks'[t].threw
             => /\ ~tasks'[t].ret /\ ~tasks'[t].propagated
                /\ auth'.isAuthenticated = auth.isAuthenticated
          /\ tasks[t].pc = "done" /\ tasks[t].threw /\ tasks'[t].pc = "idle"
             => auth'.isAuthenticated = auth.isAuthenticated]_vars

C19_Witness ==
    \E t \in Tasks :
        /\ tasks[t].op = "authenticate" /\ tasks[t].pc = "done"
        /\ tasks[t].threw /\ ~tasks[t].locked
        /\ tasks[t].pin = established
        /\ ~tasks[t].ret /\ ~auth.isAuthenticated

\* in this step the shouldAutoLock call of task t returns
AutoLockReturns(t) ==
    /\ tasks[t].op = "shouldAutoLock"
    /\ tasks[t].pc = "l_read" /\ tasks'[t].pc = "done"

\* C20 as claimed: shouldAutoLock(m) returns true when no last_active value
\* is stored, and otherwise exactly when now - lastActive >= m * 60000.
C20_AsClaimed ==
    [][\A t \in Tasks : AutoLockReturns(t) =>
          (tasks'[t].ret <=>
              \/ secureStore.last_active = NoItem
              \/ now - parseInt(secureStore.last_active) >= tasks[t].minutes * 60000)]_vars

\* C20 amended: shouldAutoLock(m) returns true when no last_active value is
\* stored and when the read of it throws, and otherwise exactly when
\* now - lastActive >= m * 60000.
C20_AutoLock ==
    [][\A t \in Tasks : AutoLockReturns(t) =>
          (tasks'[t].ret <=>
              \/ tasks'[t].threw
              \/ secureStore.last_active = NoItem
              \/ now - parseInt(secureStore.last_active) >= tasks[t].minutes * 60000)]_vars

C20_Witness ==
    \E t \in Tasks :
        /\ tasks[t].op = "shouldAutoLock" /\ tasks[t].pc = "done"
        /\ ~tasks[t].threw /\ ~tasks[t].ret
        /\ secureStore.last_active # NoItem
        /\ now - parseInt(secureStore.last_active) < tasks[t].minutes * 60000

----------------------------------------------------------------------------
(* PIN format                                                              *)

\* every step of pin is +1
Ascending(pin) == \A i \in 1..(Len(pin) - 1) : pin[i + 1] = pin[i] + 1

\* every step of pin is -1
Descending(pin) == \A i \in 1..(Len(pin) - 1) : pin[i + 1] = pin[i] - 1

\* a run in the order of the keys 1..9, 0: every step is +1, or the last
\* step goes from 9 to 0
AscendingKeys(pin) ==
    \A i \in 1..(Len(pin) - 1) :
       \/ pin[i + 1] = pin[i] + 1
       \/ i = Len(pin) - 1 /\ pin[i] = 9 /\ pin[i + 1] = 0

\* the same run backwards: every step is -1, or the first step goes from 0 to 9
DescendingKeys(pin) ==
    \A i \in 1..(Len(pin) - 1) :
       \/ pin[i + 1] = pin[i] - 1
       \/ i = 1 /\ pin[1] = 0 /\ pin[2] = 9

\* digits only, of a permitted length, not all the same digit
WellFormed(pin) ==
    /\ Len(pin) >= MIN_PIN_LENGTH /\ Len(pin) <= MAX_PIN_LENGTH
    /\ \A i \in 1..Len(pin) : pin[i] \in 0..9
    /\ \E i \in 1..Len(pin) : pin[i] # pin[1]

\* the PIN setupPin was called with by PinSetupScreen, while that call runs
SetupPinCalled(t) == tasks[t].op = "handlePinConfirmed" /\ tasks[t].pc # "idle"

----------------------------------------------------------------------------
(* The session                                                             *)

\* C22: every transition into Authenticated is followed by exactly one
\* updateLastActive() call of the UI layer: when the session ends with
\* logout(), the call has been made and last_active is stored.
C22_TouchedOncePerSession ==
    [][Logout => secureStore.last_active # NoItem]_vars

\* C23: once PinSetupScreen has completed (setupPin returned true and
\* setAuthenticated(true) was called), every Unauthenticated state reached
\* while that Credential stands has isPinSet = true: PinEntryScreen is shown,
\* never PinSetupScreen.
C23_SetupOfferedOnce ==
    (/\ established \in Pins
     /\ ~SetupInFlight
     /\ ~auth.isLoading /\ ~auth.isAuthenticated)
       => auth.isPinSet

\* C25: after every completed authenticate(pin) call the failedAttempts of
\* the auth store equals the failedAttempts of the rate limiter.
C25_MirrorAgrees ==
    \A t \in Tasks :
       (tasks[t].op = "authenticate" /\ tasks[t].pc = "done")
          => auth.failedAttempts = rateLimitState.failedAttempts

\* text is the beginning of pin
BeginsPin(text, pin) == Len(text) <= Len(pin) /\ SubSeq(pin, 1, Len(text)) = text

\* C24: keying exactly the digits of the stored PIN, whatever its length,
\* into the empty PinEntryScreen with failedAttempts = 0 calls
\* recordFailedAttempt() at no point and, once the last press has finished,
\* has authenticated.
C24_KeyedPinAuthenticates ==
    /\ [][BeginsPin(screen'.keyed, established) => ~RecordStep]_vars
    /\ []((screen.keyed = established /\ AllIdle) => auth.isAuthenticated)

----------------------------------------------------------------------------
(* Erasing the Credential                                                  *)

\* C26: authenticateBiometric() moves the store to Authenticated only while
\* a Credential is stored: not after clearPin() or deleteAccount() deleted it.
C26_BiometricNeedsCredential ==
    [][\A t \in Tasks :
          (BiometricMoves(t) /\ tasks'[t].pc = "done" /\ tasks'[t].ret)
             => ~NoCredential(secureStore)]_vars

\* C27: once deleteAccount() has succeeded, the checkPinSetup() of the next
\* start, with reads that answer, reports isPinSet = false and
\* isBiometricEnabled = false, the values deleteAccount set.
C27_DeleteAccountPersists ==
    \A t \in Tasks :
       (tasks[t].op = "deleteAccount" /\ tasks[t].pc = "done" /\ tasks[t].ret)
          => LET a == checkPinSetupSet(AuthInit, secureStore, TRUE, TRUE)
             IN  /\ a.isPinSet = auth.isPinSet /\ ~a.isPinSet
                 /\ a.isBiometricEnabled = auth.isBiometricEnabled
                 /\ ~a.isBiometricEnabled

----------------------------------------------------------------------------
(* Recovery                                                                *)

\* C28: answers that verified before a successful changePin or resetPin
\* still verify after it.
C28_AnswersSurvivePinChange ==
    \A t \in Tasks :
       (tasks[t].op \in {"changePin", "resetPin"} /\ tasks[t].pc = "done" /\ tasks[t].ret)
          => \A answers \in AnswerLists :
                verifySecurityAnswers(tasks[t].store0, answers)
                   => verifySecurityAnswers(secureStore, answers)

\* C29: verifySecurityAnswers(answers) returns true only when at least one
\* question is stored and every stored question is matched by its answer.
C29_TrueNeedsAQuestion ==
    \A t \in Tasks :
       (tasks[t].op = "verifySecurityAnswers" /\ tasks[t].pc = "done" /\ tasks[t].ret)
          => /\ secureStore.security_questions # NoItem
             /\ secureStore.pin_salt # NoItem
             /\ LET questions == JSONparse(secureStore.security_questions)
                IN  /\ Len(questions) >= 1
                    /\ \A i \in 1..Len(questions) :
                          /\ i <= Len(tasks[t].arg)
                          /\ hashPin(trim(toLowerCase(tasks[t].arg[i])), secureStore.pin_salt)
                                = questions[i].answerHash

\* C30: an authenticate(pin) call in which a read of the secure store threw,
\* or that found no Credential stored, returns leaving failedAttempts and
\* lockUntil as they were.
C30_OnlyWrongPinCounts ==
    [][\A t \in Tasks :
          (/\ AuthReturns(t)
           /\ \/ tasks'[t].threw
              \/ secureStore.pin_hash = NoItem
              \/ secureStore.pin_salt = NoItem)
             => rateLimitState' = rateLimitState]_vars

====
